---------------------------- MODULE Spec2Model ----------------------------
(***************************************************************************)
(* A model of the query-processing core of the nail-RAG backend:           *)
(*   - ResponseCache / ResponseCacheService (response_cache_service.py)    *)
(*   - CategoryRoutingService.route_query (category_routing_service.py)    *)
(*   - RAGService.retrieve_context / _rerank_results / generate_response / *)
(*     process_query (rag_service.py), WeaviateService.search_similar      *)
(*   - ChatService.process_message / stream_response (chat_service.py) and *)
(*     the WebSocket handler (websocket_routes.py)                         *)
(*                                                                         *)
(* Conventions.  An Optional value is a sequence of length at most one:    *)
(* None is <<>> and a present value x is <<x>>.  Floating point scores are *)
(* integers in hundredths (0.75 is 75).  A Python dict is a sequence of    *)
(* entries with distinct keys, in insertion order.  A Python str is a      *)
(* sequence of one-character strings, so that it can be sliced, joined and *)
(* searched as the code does.                                              *)
(***************************************************************************)
EXTENDS Integers, Sequences, FiniteSets, TLC

VARIABLES
    \* ---- response_cache_service.py
    CACHING_ENABLED,   \* settings.CACHING_ENABLED
    cache_present,     \* ResponseCacheService.cache is not None
    cache,             \* ResponseCache.cache: key -> (response, timestamp)
    now,               \* time.time()
    lastOp,            \* the last call on the cache service, with its result
    \* ---- category_routing_service.py
    route_enabled,     \* CategoryRoutingService._enabled
    route_call,        \* the classification call's outcome for the pending call
    route_pc,          \* "call" while route_query runs, "done" when it returned
    route_result,      \* what route_query returned
    \* ---- rag_service.py: retrieve_context
    CATEGORY_ROUTING_ENABLED,  \* settings.CATEGORY_ROUTING_ENABLED
    QUERY_EXPANSION_ENABLED,   \* settings.QUERY_EXPANSION_ENABLED
    r_pc,              \* where retrieve_context stands
    r_args,            \* its arguments
    r_collection_names,\* collection_names after step 1 (Optional)
    r_queries,         \* queries_to_search
    r_searches,        \* per query variant: the search_similar task
    r_result,          \* what retrieve_context returned
    \* ---- rag_service.py: process_query
    pq,                \* per caller: where its process_query call stands
    \* ---- chat_service.py, conversation_manager.py, websocket_routes.py
    memory,            \* _short_term_memory[conversation_id]
    turns,             \* chat messages received so far
    pm,                \* the process_message call
    sr,                \* the stream_response generator
    ws,                \* the WebSocket handler and the frames it has sent
    \* ---- rag_service.py: expand_query and the variants retrieval uses
    exp_pc,            \* where the expansion stands
    exp_query,         \* the query being expanded
    exp_use,           \* retrieve_context's use_query_expansion argument
    exp_call,          \* what the expansion's generation call does
    exp_result,        \* what expand_query returned
    exp_queries,       \* retrieve_context's queries_to_search
    \* ---- rag_service.py: steps 4 and 5 of retrieve_context, _rerank_results
    rk_pc,             \* where the rerank stands
    rk_query,          \* the query
    rk_lists,          \* results_list: what each search task returned
    rk_limit,          \* limit
    rk_result,         \* top_results
    \* ---- rag_service.py: _validate_answer_quality
    q_pc,              \* where the scoring stands
    q_answer,          \* answer
    q_context,         \* context
    q_query,           \* query
    q_outcome          \* what the call did: raised, or the score it returned

cacheVars == <<CACHING_ENABLED, cache_present, cache, now, lastOp>>
routeVars == <<route_enabled, route_call, route_pc, route_result>>
retrVars == <<CATEGORY_ROUTING_ENABLED, QUERY_EXPANSION_ENABLED, r_pc, r_args,
              r_collection_names, r_queries, r_searches, r_result>>

pqVars == <<pq>>

chatVars == <<memory, turns, pm, sr, ws>>

expVars == <<exp_pc, exp_query, exp_use, exp_call, exp_result, exp_queries>>

rerankVars == <<rk_pc, rk_query, rk_lists, rk_limit, rk_result>>

qualVars == <<q_pc, q_answer, q_context, q_query, q_outcome>>

vars == <<cacheVars, routeVars, retrVars, pqVars, chatVars, expVars,
          rerankVars, qualVars>>

\* what a step of one component leaves alone: the other components
exceptCache == <<routeVars, retrVars, pqVars, chatVars, expVars,
    rerankVars, qualVars>>
exceptRoute == <<cacheVars, retrVars, pqVars, chatVars, expVars,
    rerankVars, qualVars>>
exceptRetr == <<cacheVars, routeVars, pqVars, chatVars, expVars,
    rerankVars, qualVars>>
exceptChat == <<cacheVars, routeVars, retrVars, pqVars, expVars,
    rerankVars, qualVars>>
exceptExp == <<cacheVars, routeVars, retrVars, pqVars, chatVars,
    rerankVars, qualVars>>
\* process_query reads and writes the cache
exceptPQ == <<CACHING_ENABLED, cache_present, now, lastOp, routeVars, retrVars,
              chatVars, expVars, rerankVars, qualVars>>
exceptRerank == <<cacheVars, routeVars, retrVars, pqVars, chatVars, expVars,
                  qualVars>>
exceptQual == <<cacheVars, routeVars, retrVars, pqVars, chatVars, expVars,
                rerankVars>>

None == <<>>
Some(x) == <<x>>

-----------------------------------------------------------------------------
(* Bounds of the model *)

\* ResponseCache(max_size=...): the capacity the model constructs the cache with
max_size == 2
\* ResponseCache(ttl=...): seconds an entry lives
ttl == 1
\* the clock stops advancing here
MaxTime == 2
\* fragments in a classification response
MaxFragments == 4
\* the largest `limit` retrieve_context is called with
MaxLimit == 2
\* chat messages received in one conversation
MaxTurns == 2
\* content chunks of one streamed completion
MaxTokens == 2
\* lines in an expansion response
MaxLines == 5

-----------------------------------------------------------------------------
(* ResponseCache *)

\* hashlib.md5(...).hexdigest(): an injective digest (no collisions modelled)
md5_hexdigest(s) == <<"md5", s>>

\* `if conversation_context:` is false for None and for the empty string
Truthy(opt) == opt # None /\ opt[1] # <<>>

cache_string(query, conversation_context) ==
    IF Truthy(conversation_context)
    THEN query \o <<"|">> \o conversation_context[1]
    ELSE query

\* a lone surrogate code point, which a Python str can hold (json.loads
\* produces one from "\ud800") and UTF-8 cannot encode
LoneSurrogate == "U+D800"

\* cache_string.encode() raises UnicodeEncodeError
encode_raises(s) == \E i \in 1..Len(s) : s[i] = LoneSurrogate

\* _generate_key where encode() does not raise
_generate_key(query, conversation_context) ==
    md5_hexdigest(cache_string(query, conversation_context))

KeysOf(store) == {store[i].key : i \in 1..Len(store)}

IndexOf(store, key) == CHOOSE i \in 1..Len(store) : store[i].key = key

\* del d[key]
DictDel(store, key) ==
    LET i == IndexOf(store, key)
    IN  SubSeq(store, 1, i - 1) \o SubSeq(store, i + 1, Len(store))

\* d[key] = value: an existing key keeps its place, a new key goes last
DictPut(store, key, response, timestamp) ==
    LET e == [key |-> key, response |-> response, timestamp |-> timestamp]
    IN  IF key \in KeysOf(store)
        THEN [store EXCEPT ![IndexOf(store, key)] = e]
        ELSE Append(store, e)

\* mutants of Fresh: the comparison reversed, and off by one
Fresh_reversed(timestamp, t) == t - timestamp > ttl
Fresh_inclusive(timestamp, t) == t - timestamp <= ttl

\* `time.time() - timestamp < self.ttl`
Fresh(timestamp, t) == t - timestamp < ttl

\* ResponseCache.get: the store afterwards and the returned Optional
ResponseCache_get(store, query, conversation_context, t) ==
    LET key == _generate_key(query, conversation_context)
    IN  IF key \in KeysOf(store)
        THEN LET e == store[IndexOf(store, key)]
             IN  IF Fresh(e.timestamp, t)
                 THEN [store |-> store, result |-> Some(e.response)]
                 ELSE [store |-> DictDel(store, key), result |-> None]
        ELSE [store |-> store, result |-> None]

\* mutant of CacheFull: evicts only above capacity
CacheFull_above(store) == Len(store) > max_size

\* `if len(self.cache) >= self.max_size`
CacheFull(store) == Len(store) >= max_size

\* mutant of ResponseCache_set: stores without evicting
ResponseCache_set_never_evicts(store, query, response, conversation_context, t) ==
    DictPut(store, _generate_key(query, conversation_context), response, t)

\* ResponseCache.set: evict the first key of the dict when full, then store
ResponseCache_set(store, query, response, conversation_context, t) ==
    LET key == _generate_key(query, conversation_context)
        evicted == IF CacheFull(store) THEN Tail(store) ELSE store
    IN  DictPut(evicted, key, response, t)

\* ResponseCache.clear
ResponseCache_clear(store) == <<>>

-----------------------------------------------------------------------------
(* ResponseCacheService: absorbs the CACHING_ENABLED flag *)

ResponseCacheService_get(present, store, query, conversation_context, t) ==
    IF ~present
    THEN [store |-> store, result |-> None]
    ELSE ResponseCache_get(store, query, conversation_context, t)

\* mutant of ResponseCacheService_set: the flag is not consulted
ResponseCacheService_set_unguarded(present, store, query, response, conversation_context, t) ==
    ResponseCache_set(store, query, response, conversation_context, t)

ResponseCacheService_set(present, store, query, response, conversation_context, t) ==
    IF present
    THEN ResponseCache_set(store, query, response, conversation_context, t)
    ELSE store

ResponseCacheService_clear(present, store) ==
    IF present THEN ResponseCache_clear(store) ELSE store

-----------------------------------------------------------------------------
(* CategoryRoutingService.route_query *)

NAIL_COLOR_THEORY == "NailColorTheory"
NAIL_SKIN_TONE == "NailSkinTone"
NAIL_SEASONAL == "NailSeasonal"
NAIL_SHAPE == "NailShape"

\* CollectionNames.get_all_nail_collections()
get_all_nail_collections ==
    <<NAIL_COLOR_THEORY, NAIL_SKIN_TONE, NAIL_SEASONAL, NAIL_SHAPE>>

\* The text of a classification response is a sequence of fragments.  No
\* collection name is a substring of another, so `name in result` holds iff
\* some fragment contains the name: a fragment that is the name itself, or
\* one with the name inside other characters ("xNailShapes").  A name in
\* another letter case ("nailshape") does not match.
Fragments == {NAIL_COLOR_THEORY, NAIL_SKIN_TONE, NAIL_SEASONAL, NAIL_SHAPE,
              "xNailShapes", "nailshape", ", "}

NameIn(name, fragment) ==
    \/ fragment = name
    \/ (name = NAIL_SHAPE /\ fragment = "xNailShapes")

\* `collection_name in result`
OccursIn(name, result) == \E i \in 1..Len(result) : NameIn(name, result[i])

\* mutant of NoUsefulSignal: an empty selection is returned as it is
NoUsefulSignal_all_only(selected_collections) ==
    Len(selected_collections) = Len(get_all_nail_collections)

\* `if not selected_collections or len(selected_collections) == len(all)`
NoUsefulSignal(selected_collections) ==
    \/ selected_collections = <<>>
    \/ Len(selected_collections) = Len(get_all_nail_collections)

\* an outcome of `await client.chat.completions.create(...)`:
\* [raised |-> TRUE] or [raised |-> FALSE, content |-> the text]
Raised == [raised |-> TRUE, content |-> <<>>]
Returned(content) == [raised |-> FALSE, content |-> content]

\* route_query, given the outcome of its classification call
route_query(enabled, call) ==
    IF ~enabled
    THEN get_all_nail_collections
    ELSE IF call.raised
    THEN get_all_nail_collections                    \* except Exception
    ELSE LET selected_collections ==
                 SelectSeq(get_all_nail_collections,
                           LAMBDA name : OccursIn(name, call.content))
         IN  IF NoUsefulSignal(selected_collections)
             THEN get_all_nail_collections
             ELSE selected_collections

RECURSIVE SeqsUpTo(_, _)
\* the sequences over S of length at most n
SeqsUpTo(S, n) ==
    IF n = 0 THEN {<<>>}
    ELSE LET shorter == SeqsUpTo(S, n - 1)
         IN  shorter \cup {Append(t, x) : t \in shorter, x \in S}

ClassificationOutcomes ==
    {Raised} \cup {Returned(t) : t \in SeqsUpTo(Fragments, MaxFragments)}

\* CategoryRoutingService.__init__: routing enabled, no call in progress
InitRoute ==
    /\ route_enabled = TRUE
    /\ route_call = Raised
    /\ route_pc = "idle"
    /\ route_result = <<>>

\* CategoryRoutingService.enable
RouteEnable ==
    /\ route_pc = "idle"
    /\ route_enabled' = TRUE
    /\ UNCHANGED <<route_call, route_pc, route_result>>
    /\ UNCHANGED exceptRoute

\* CategoryRoutingService.disable
RouteDisable ==
    /\ route_pc = "idle"
    /\ route_enabled' = FALSE
    /\ UNCHANGED <<route_call, route_pc, route_result>>
    /\ UNCHANGED exceptRoute

\* a caller enters route_query; the classification call will end as `call`
RouteCall(call) ==
    /\ route_pc = "idle"
    /\ route_call' = call
    /\ route_pc' = "call"
    /\ route_result' = <<>>
    /\ UNCHANGED route_enabled
    /\ UNCHANGED exceptRoute

\* route_query runs to its return
RouteQuery ==
    /\ route_pc = "call"
    /\ route_result' = route_query(route_enabled, route_call)
    /\ route_pc' = "done"
    /\ UNCHANGED <<route_enabled, route_call>>
    /\ UNCHANGED exceptRoute

\* the caller takes the result
RouteReturn ==
    /\ route_pc = "done"
    /\ route_pc' = "idle"
    /\ route_call' = Raised
    /\ route_result' = <<>>
    /\ UNCHANGED route_enabled
    /\ UNCHANGED exceptRoute

NextRoute ==
    \/ RouteEnable
    \/ RouteDisable
    \/ \E call \in ClassificationOutcomes : RouteCall(call)
    \/ RouteQuery
    \/ RouteReturn

-----------------------------------------------------------------------------
(* Text.  A Python str is a sequence of one-character strings. *)

\* str.lower on one character, for the upper-case letters the model uses
Lower(ch) == CASE ch = "R" -> "r" [] ch = "N" -> "n" [] ch = "I" -> "i"
               [] OTHER -> ch

\* str.lower
lower(s) == [i \in 1..Len(s) |-> Lower(s[i])]

IsSpace(ch) == ch = " "

\* an index of s holding whitespace, taken near the middle of s
WordEnd(s) ==
    LET spaces == {i \in 1..Len(s) : IsSpace(s[i])}
        later == {i \in spaces : 2 * i >= Len(s)}
    IN  IF later # {}
        THEN CHOOSE i \in later : \A j \in later : i <= j
        ELSE CHOOSE i \in spaces : \A j \in spaces : i >= j

RECURSIVE split(_)
\* str.split(): the maximal runs of characters that are not whitespace, in
\* order: those before a whitespace character, then those after it
split(s) ==
    IF s = <<>> THEN <<>>
    ELSE IF \A i \in 1..Len(s) : ~IsSpace(s[i]) THEN <<s>>
    ELSE split(SubSeq(s, 1, WordEnd(s) - 1))
             \o split(SubSeq(s, WordEnd(s) + 1, Len(s)))

\* `word in text` for two str
Substring(word, text) ==
    \E i \in 1..(Len(text) - Len(word) + 1) :
        SubSeq(text, i, i + Len(word) - 1) = word

\* str.startswith
StartsWith(s, prefix) ==
    Len(prefix) <= Len(s) /\ SubSeq(s, 1, Len(prefix)) = prefix

RECURSIVE lstrip(_)
lstrip(s) == IF s # <<>> /\ IsSpace(s[1]) THEN lstrip(Tail(s)) ELSE s

RECURSIVE rstrip(_)
rstrip(s) ==
    IF s # <<>> /\ IsSpace(s[Len(s)]) THEN rstrip(SubSeq(s, 1, Len(s) - 1)) ELSE s

\* str.strip
strip(s) == rstrip(lstrip(s))

Range(seq) == {seq[i] : i \in 1..Len(seq)}

Min(a, b) == IF a <= b THEN a ELSE b

Max(a, b) == IF a >= b THEN a ELSE b

\* seq[:n]
Take(seq, n) == SubSeq(seq, 1, Min(n, Len(seq)))

\* seq[-n:]
LastN(seq, n) == SubSeq(seq, Max(1, Len(seq) - n + 1), Len(seq))

RECURSIVE join(_, _)
\* sep.join(parts)
join(sep, parts) ==
    IF parts = <<>> THEN <<>>
    ELSE IF Len(parts) = 1 THEN parts[1]
    ELSE parts[1] \o sep \o join(sep, Tail(parts))

RECURSIVE Flatten(_)
\* the concatenation of a sequence of sequences
Flatten(seqs) == IF seqs = <<>> THEN <<>> ELSE Head(seqs) \o Flatten(Tail(seqs))

\* mutant of SortDescending: the list is left in the order it came in
SortDescending_unsorted(seq, keys) == seq

\* list.sort(key=..., reverse=True): descending and stable, keys[i] being the
\* key of seq[i]
SortDescending(seq, keys) ==
    LET n == Len(seq)
        Before(j, i) == keys[j] > keys[i] \/ (keys[j] = keys[i] /\ j < i)
        Rank(i) == Cardinality({j \in 1..n : Before(j, i)}) + 1
    IN  [p \in 1..n |-> seq[CHOOSE i \in 1..n : Rank(i) = p]]

-----------------------------------------------------------------------------
(* RAGService.expand_query *)

\* list markers a line is discarded for: ('1.', '2.', '3.', '-', '*')
ListMarkers == {<<"1", ".">>, <<"2", ".">>, <<"3", ".">>, <<"-">>, <<"*">>}

KeepsLine(line) ==
    /\ strip(line) # <<>>
    /\ ~\E m \in ListMarkers : StartsWith(strip(line), m)

\* mutants of expand_query: a failed call yields no variant at all, and the
\* original query is put last
expand_query_failure_empty(query, call) ==
    IF call.raised \/ call.content = None
    THEN <<>>
    ELSE <<query>> \o
         Take(SelectSeq([i \in 1..Len(call.content) |-> strip(call.content[i])],
                        LAMBDA line : KeepsLine(line)), 4)

expand_query_query_last(query, call) ==
    IF call.raised \/ call.content = None
    THEN <<query>>
    ELSE Take(SelectSeq([i \in 1..Len(call.content) |-> strip(call.content[i])],
                        LAMBDA line : KeepsLine(line)), 4) \o <<query>>

\* expand_query, given the outcome of its generation call.  The content of a
\* response is given as its lines (content.split('\n')), of which a str has
\* at least one; a content of None has none, and .split raises on it
expand_query(query, call) ==
    IF call.raised \/ call.content = None
    THEN <<query>>                                     \* except Exception
    ELSE LET kept == SelectSeq(call.content, KeepsLine)
             variants == [i \in 1..Len(kept) |-> strip(kept[i])]
         IN  <<query>> \o Take(variants, 4)

MAX_QUERY_VARIANTS == 5

-----------------------------------------------------------------------------
(* WeaviateService.search_similar *)

similarity_score_threshold == 75

\* _search_collection: the objects of one hybrid query at or above the
\* threshold, each with its collection; nothing when the query raised
_search_collection(collection_name, outcome, similarity_threshold) ==
    IF outcome.raised
    THEN <<>>
    ELSE LET kept == SelectSeq(outcome.content,
                               LAMBDA obj : obj.score >= similarity_threshold)
         IN  [i \in 1..Len(kept) |->
                 [collection |-> collection_name,
                  document_id |-> kept[i].document_id,
                  category |-> kept[i].category,
                  content |-> kept[i].content,
                  chunk_index |-> kept[i].chunk_index,
                  source_title |-> kept[i].source_title,
                  score |-> kept[i].score]]

\* mutant of search_similar: one raising collection empties the whole search
search_similar_fail_fast(collection_names, hybrid, limit, similarity_threshold) ==
    LET names == IF collection_names = None
                 THEN get_all_nail_collections
                 ELSE collection_names[1]
        all_results ==
            Flatten([i \in 1..Len(names) |->
                        _search_collection(names[i], hybrid[names[i]],
                                           similarity_threshold)])
        sorted == SortDescending(all_results,
                                 [i \in 1..Len(all_results) |-> all_results[i].score])
    IN  IF \E i \in 1..Len(names) : hybrid[names[i]].raised
        THEN <<>>
        ELSE Take(sorted, limit)

\* search_similar: hybrid[c] is the outcome of the hybrid query on collection c
search_similar(collection_names, hybrid, limit, similarity_threshold) ==
    LET names == IF collection_names = None
                 THEN get_all_nail_collections
                 ELSE collection_names[1]
        all_results ==
            Flatten([i \in 1..Len(names) |->
                        _search_collection(names[i], hybrid[names[i]],
                                           similarity_threshold)])
        sorted == SortDescending(all_results,
                                 [i \in 1..Len(all_results) |-> all_results[i].score])
    IN  Take(sorted, limit)

-----------------------------------------------------------------------------
(* RAGService._rerank_results and retrieve_context *)

DedupKey(result) == <<result.document_id, result.chunk_index>>

\* mutant of FirstSeen: the last passage with a key is the one kept
FirstSeen_last_seen(results, i) ==
    \A j \in (i + 1)..Len(results) : DedupKey(results[j]) # DedupKey(results[i])

\* mutant of FirstSeen: nothing counts as seen
FirstSeen_never_seen(results, i) == TRUE

\* `if key not in seen`, for results[i] in the scan of results
FirstSeen(results, i) ==
    \A j \in 1..(i - 1) : DedupKey(results[j]) # DedupKey(results[i])

\* the results whose key was not seen earlier in the list
unique_results(results) ==
    LET firsts == {i \in 1..Len(results) : FirstSeen(results, i)}
        Nth(p) == CHOOSE i \in firsts :
                      Cardinality({j \in firsts : j < i}) = p - 1
    IN  [p \in 1..Cardinality(firsts) |-> results[Nth(p)]]

\* set(query_lower.split())
query_words(query) == Range(split(lower(query)))

\* result.get("source_title", "").lower() has no lower() when the property is
\* stored as None, and likewise for content: the scoring loop then raises
RerankRaises(results) ==
    \E i \in 1..Len(results) :
        /\ FirstSeen(results, i)
        /\ results[i].content = None \/ results[i].source_title = None

title_matches(result, query) ==
    Cardinality({word \in query_words(query) :
                     Substring(word, lower(result.source_title[1]))})

content_matches(result, query) ==
    Cardinality({word \in query_words(query) :
                     Substring(word, lower(result.content[1]))})

\* mutant of reranked_score: the boosted score is stored as it is
reranked_score_uncapped(result, query) ==
    result.score + 10 * title_matches(result, query)
                 + 5 * Min(content_matches(result, query), 5)

\* mutant of reranked_score: one boost for the title, however many query
\* words it holds
reranked_score_flat_title(result, query) ==
    Min(result.score + 10 * Min(title_matches(result, query), 1)
                     + 5 * Min(content_matches(result, query), 5),
        100)

\* score + 0.1 * title_matches + 0.05 * min(content_matches, 5), capped at 1.0
reranked_score(result, query) ==
    Min(result.score + 10 * title_matches(result, query)
                     + 5 * Min(content_matches(result, query), 5),
        100)

WithRerankedScore(result, query) ==
    [collection |-> result.collection,
     document_id |-> result.document_id,
     category |-> result.category,
     content |-> result.content,
     chunk_index |-> result.chunk_index,
     source_title |-> result.source_title,
     score |-> result.score,
     reranked_score |-> reranked_score(result, query)]

_rerank_results(results, query) ==
    IF results = <<>>
    THEN <<>>
    ELSE LET unique == unique_results(results)
             scored == [i \in 1..Len(unique) |-> WithRerankedScore(unique[i], query)]
         IN  SortDescending(scored,
                            [i \in 1..Len(scored) |-> scored[i].reranked_score])

\* Step 1 of retrieve_context: the collections searched (Optional)
routed_collection_names(collection_names, enabled, call) ==
    IF collection_names = None /\ CATEGORY_ROUTING_ENABLED
    THEN Some(route_query(enabled, call))
    ELSE collection_names

\* Step 2 of retrieve_context
queries_to_search(query, use_query_expansion, call) ==
    IF use_query_expansion /\ QUERY_EXPANSION_ENABLED
    THEN Take(expand_query(query, call), MAX_QUERY_VARIANTS)
    ELSE <<query>>

\* mutant of top_results: the list is cut to limit before it is reranked
top_results_cut_first(results_list, query, limit) ==
    LET all_results == Take(Flatten(results_list), limit)
    IN  IF all_results # <<>> /\ RerankRaises(all_results)
        THEN <<>>
        ELSE _rerank_results(all_results, query)

\* Steps 3 (combine), 4 and 5 of retrieve_context, given what each search
\* task returned
top_results(results_list, query, limit) ==
    LET all_results == Flatten(results_list)
    IN  IF all_results # <<>> /\ RerankRaises(all_results)
        THEN <<>>                                      \* except Exception
        ELSE Take(_rerank_results(all_results, query), limit)

-----------------------------------------------------------------------------
(* RAGService._validate_answer_quality and generate_response *)

uncertainty_patterns ==
    {<<"i", " ", "d", "o", "n", "'", "t", " ", "k", "n", "o", "w">>,
     <<"i", "'", "m", " ", "n", "o", "t", " ", "s", "u", "r", "e">>,
     <<"i", " ", "c", "a", "n", "n", "o", "t">>,
     <<"i", "'", "m", " ", "u", "n", "a", "b", "l", "e">>,
     <<"n", "o", " ", "i", "n", "f", "o", "r", "m", "a", "t", "i", "o", "n">>,
     <<"n", "o", "t", " ", "a", "v", "a", "i", "l", "a", "b", "l", "e">>}

\* r.get("source_title", "").lower() and r.get("category", "").lower() over
\* context[:3] raise when the property is stored as None
QualityRaises(answer, context) ==
    /\ answer # <<>> /\ context # <<>>
    /\ \E i \in 1..Len(Take(context, 3)) :
           context[i].source_title = None \/ context[i].category = None

\* _validate_answer_quality where it does not raise, in hundredths
_validate_answer_quality(answer, context, query) ==
    IF answer = <<>> \/ context = <<>>
    THEN 0
    ELSE LET answer_lower == lower(answer)
             uncertain == \E pattern \in uncertainty_patterns :
                              Substring(pattern, answer_lower)
             references_context ==
                 \E i \in 1..Len(Take(context, 3)) :
                     LET title == lower(context[i].source_title[1])
                     IN  /\ title # <<>>
                         /\ \E word \in Range(Take(split(title), 3)) :
                                Substring(word, answer_lower)
             word_count == Len(split(answer))
             score == 100 - (IF uncertain THEN 30 ELSE 0)
                          - (IF references_context THEN 0 ELSE 20)
                          - (IF word_count < 20 THEN 20
                             ELSE IF word_count > 500 THEN 10 ELSE 0)
         IN  Max(0, Min(100, score))

\* the two fixed answers of the failure paths, each kept whole
APOLOGY_GENERATION ==
    <<"I apologize, but I encountered an error generating a response. Please try again.">>
APOLOGY_PROCESSING ==
    <<"I apologize, but I encountered an error. Please try again.">>

OPENAI_MODEL == "gpt-5.1"

\* the generation call returned a response: message.content and usage, either
\* of which may be None
Completion(content, usage) ==
    [raised |-> FALSE, content |-> content, usage |-> usage]

\* generate_response leaves its try block by an exception: the call raised,
\* scoring raised, or len(answer) raised on a None answer
GenerationFails(context, call) ==
    \/ call.raised
    \/ call.content = None
    \/ QualityRaises(call.content[1], context)

\* str(e) of the exception caught
ErrorText == "TypeError: object of type 'NoneType' has no len()"

generate_response(query, context, call) ==
    IF GenerationFails(context, call)
    THEN [answer |-> APOLOGY_GENERATION,
          context_count |-> Len(context),
          error |-> ErrorText]
    ELSE [answer |-> call.content[1],
          context_count |-> Len(context),
          model |-> OPENAI_MODEL,
          tokens_used |-> IF call.usage # None THEN call.usage[1] ELSE 0,
          quality_score |-> _validate_answer_quality(call.content[1], context, query)]

\* response["context_sources"] = [...]: the response with the top 5 sources
context_sources(context) ==
    [i \in 1..Len(Take(context, 5)) |->
        [title |-> context[i].source_title,
         category |-> context[i].category,
         score |-> context[i].reranked_score]]

WithContextSources(response, context) ==
    IF "error" \in DOMAIN response
    THEN [answer |-> response.answer,
          context_count |-> response.context_count,
          error |-> response.error,
          context_sources |-> context_sources(context)]
    ELSE [answer |-> response.answer,
          context_count |-> response.context_count,
          model |-> response.model,
          tokens_used |-> response.tokens_used,
          quality_score |-> response.quality_score,
          context_sources |-> context_sources(context)]

-----------------------------------------------------------------------------
(* retrieve_context driven by arbitrary callers and arbitrary outcomes of *)
(* the classification, expansion and hybrid-search calls                  *)

Txt_R_n == <<"R", " ", "n">>
Txt_z == <<"z">>
Txt_r == <<"r">>
Txt_nr == <<"n", "r">>

RetrQueries == {Txt_R_n, Txt_z}

Txt_cat == <<"c", "a", "t">>

\* an object a hybrid query returns: its properties and its metadata score
Obj(document_id, chunk_index, source_title, content, score) ==
    [document_id |-> document_id, chunk_index |-> chunk_index,
     source_title |-> source_title, category |-> Some(Txt_cat),
     content |-> content, score |-> score]

\* what collection.query.hybrid may do on each collection
HybridOutcomes(collection_name) ==
    CASE collection_name = NAIL_COLOR_THEORY ->
             {Raised,
              Returned(<<Obj("d1", 0, Some(Txt_r), Some(Txt_z), 80),
                         Obj("d1", 1, Some(Txt_z), Some(Txt_nr), 76)>>),
              Returned(<<Obj("d2", 0, Some(Txt_z), Some(Txt_z), 95),
                         Obj("d1", 0, Some(Txt_r), Some(Txt_z), 90)>>)}
      [] collection_name = NAIL_SKIN_TONE ->
             {Returned(<<>>),
              Returned(<<Obj("d1", 0, Some(Txt_r), Some(Txt_z), 80)>>),
              Returned(<<Obj("d2", 0, None, Some(Txt_z), 78),
                         Obj("d1", 1, Some(Txt_z), Some(Txt_nr), 76)>>)}
      [] collection_name = NAIL_SEASONAL ->
             {Returned(<<>>)}
      [] OTHER ->
             {Raised, Returned(<<Obj("d3", 0, Some(Txt_z), Some(Txt_r), 70)>>)}

AllHybridOutcomes == UNION {HybridOutcomes(c) : c \in Range(get_all_nail_collections)}

\* the hybrid query returns at most `limit` objects
HybridChoices(names, limit) ==
    {h \in [Range(names) -> AllHybridOutcomes] :
        \A c \in Range(names) :
            /\ h[c] \in HybridOutcomes(c)
            /\ ~h[c].raised => Len(h[c].content) <= limit}

RetrClassifications ==
    {Raised,
     Returned(<<NAIL_SKIN_TONE>>),
     Returned(<<NAIL_COLOR_THEORY, ", ", NAIL_SKIN_TONE>>)}

RetrExpansions ==
    {Raised, Returned(<< <<"-", " ", "r">>, <<" ", "n", " ">> >>)}

RetrArgs ==
    [query : RetrQueries,
     collection_names : {None, Some(<<NAIL_SKIN_TONE>>),
                         Some(<<NAIL_SKIN_TONE, NAIL_COLOR_THEORY>>)},
     limit : 0..MaxLimit,
     use_query_expansion : BOOLEAN]

NoArgs == [query |-> <<>>, collection_names |-> None, limit |-> 0,
           use_query_expansion |-> FALSE]

\* a search task: whether it has run, what the client and the hybrid queries
\* did when it ran, and what it returned
Pending == [done |-> FALSE, client_ok |-> TRUE, hybrid |-> <<>>,
            results |-> <<>>]

RetrIdle ==
    /\ r_pc = "idle"
    /\ r_args = NoArgs
    /\ r_collection_names = None
    /\ r_queries = <<>>
    /\ r_searches = <<>>
    /\ r_result = <<>>

\* the settings as config.py ships them, and no call in progress
RetrAtRest ==
    /\ CATEGORY_ROUTING_ENABLED = TRUE
    /\ QUERY_EXPANSION_ENABLED = TRUE
    /\ RetrIdle

InitRetr ==
    /\ CATEGORY_ROUTING_ENABLED \in BOOLEAN
    /\ QUERY_EXPANSION_ENABLED \in BOOLEAN
    /\ RetrIdle

\* a caller enters retrieve_context
RetrCall(args) ==
    /\ r_pc \in {"idle", "done"}
    /\ r_pc' = "route"
    /\ r_args' = args
    /\ r_collection_names' = None
    /\ r_queries' = <<>>
    /\ r_searches' = <<>>
    /\ r_result' = <<>>
    /\ UNCHANGED <<CATEGORY_ROUTING_ENABLED, QUERY_EXPANSION_ENABLED>>
    /\ UNCHANGED exceptRetr

\* Step 1: route to relevant collections if not specified
RetrRoute ==
    /\ r_pc = "route"
    /\ \E call \in RetrClassifications :
           r_collection_names' =
               routed_collection_names(r_args.collection_names, route_enabled, call)
    /\ r_pc' = "expand"
    /\ UNCHANGED <<CATEGORY_ROUTING_ENABLED, QUERY_EXPANSION_ENABLED, r_args,
                   r_queries, r_searches, r_result>>
    /\ UNCHANGED exceptRetr

\* Step 2: expand the query, and create one search task per variant
RetrExpand ==
    /\ r_pc = "expand"
    /\ \E call \in RetrExpansions :
           r_queries' = queries_to_search(r_args.query,
                                          r_args.use_query_expansion, call)
    /\ r_searches' = [v \in 1..Len(r_queries') |-> Pending]
    /\ r_pc' = "search"
    /\ UNCHANGED <<CATEGORY_ROUTING_ENABLED, QUERY_EXPANSION_ENABLED, r_args,
                   r_collection_names, r_result>>
    /\ UNCHANGED exceptRetr

\* Step 3: one search task runs; they complete in any order
RetrSearch(v) ==
    /\ r_pc = "search"
    /\ v \in 1..Len(r_searches)
    /\ ~r_searches[v].done
    /\ \E client_ok \in BOOLEAN :
       \E hybrid \in HybridChoices(IF r_collection_names = None
                                   THEN get_all_nail_collections
                                   ELSE r_collection_names[1],
                                   r_args.limit * 2) :
           r_searches' =
               [r_searches EXCEPT ![v] =
                   [done |-> TRUE,
                    client_ok |-> client_ok,
                    hybrid |-> hybrid,
                    results |-> IF client_ok
                                THEN search_similar(r_collection_names, hybrid,
                                                    r_args.limit * 2,
                                                    similarity_score_threshold)
                                ELSE <<>>]]
    /\ UNCHANGED <<CATEGORY_ROUTING_ENABLED, QUERY_EXPANSION_ENABLED, r_pc,
                   r_args, r_collection_names, r_queries, r_result>>
    /\ UNCHANGED exceptRetr

\* Steps 4 and 5, once gather has every task's results
RetrRerank ==
    /\ r_pc = "search"
    /\ \A v \in 1..Len(r_searches) : r_searches[v].done
    /\ r_result' = top_results([v \in 1..Len(r_searches) |-> r_searches[v].results],
                               r_args.query, r_args.limit)
    /\ r_pc' = "done"
    /\ UNCHANGED <<CATEGORY_ROUTING_ENABLED, QUERY_EXPANSION_ENABLED, r_args,
                   r_collection_names, r_queries, r_searches>>
    /\ UNCHANGED exceptRetr

NextRetr ==
    \/ \E args \in RetrArgs : RetrCall(args)
    \/ RetrRoute
    \/ RetrExpand
    \/ \E v \in 1..MAX_QUERY_VARIANTS : RetrSearch(v)
    \/ RetrRerank

-----------------------------------------------------------------------------
(* The cache service driven by arbitrary callers *)

\* (query, conversation_context) pairs the callers use; ("a", "b") and
\* ("a|b", None) give the same cache string, as do ("a", None) and ("a", "")
CacheCalls == {<< <<"a">>, None >>, << <<"a">>, Some(<<>>) >>,
               << <<"a">>, Some(<<"b">>) >>, << <<"a", "|", "b">>, None >>,
               << <<"c">>, None >>, << <<"c">>, Some(<<"b">>) >>}
CacheResponses == {"r1", "r2"}

KeySeq(store) == [i \in 1..Len(store) |-> store[i].key]

\* the timestamp stored under the key of (q, c), if any
StoredAt(store, q, c) ==
    LET key == _generate_key(q, c)
    IN  IF key \in KeysOf(store)
        THEN Some(store[IndexOf(store, key)].timestamp)
        ELSE None

\* lastOp: the call (op, query, ctx, response), what it returned (result), and
\* what it found: the dict's key order (preKeys), the timestamp stored under
\* its own key (preTs), the time (at), and whether the call before it was a
\* set of the same query and context (afterSet)
NoOp == [op |-> "none", query |-> <<>>, ctx |-> None, response |-> "",
         result |-> None, preKeys |-> <<>>, preTs |-> None, at |-> 0,
         afterSet |-> FALSE]

CacheIdle ==
    /\ CACHING_ENABLED = TRUE
    /\ cache_present = TRUE
    /\ cache = <<>>
    /\ now = 0
    /\ lastOp = NoOp

InitCache ==
    /\ CACHING_ENABLED \in BOOLEAN
    /\ cache_present = CACHING_ENABLED
    /\ cache = <<>>
    /\ now = 0
    /\ lastOp = NoOp

Get(q, c) ==
    LET r == ResponseCacheService_get(cache_present, cache, q, c, now)
    IN  /\ cache' = r.store
        /\ lastOp' = [op |-> "get", query |-> q, ctx |-> c, response |-> "",
                      result |-> r.result, preKeys |-> KeySeq(cache),
                      preTs |-> StoredAt(cache, q, c), at |-> now,
                      afterSet |-> /\ lastOp.op = "set"
                                   /\ lastOp.query = q
                                   /\ lastOp.ctx = c]
        /\ UNCHANGED <<CACHING_ENABLED, cache_present, now>>
        /\ UNCHANGED exceptCache

Set(q, r, c) ==
    /\ cache' = ResponseCacheService_set(cache_present, cache, q, r, c, now)
    /\ lastOp' = [op |-> "set", query |-> q, ctx |-> c, response |-> r,
                  result |-> None, preKeys |-> KeySeq(cache),
                  preTs |-> StoredAt(cache, q, c), at |-> now,
                  afterSet |-> FALSE]
    /\ UNCHANGED <<CACHING_ENABLED, cache_present, now>>
    /\ UNCHANGED exceptCache

Clear ==
    /\ cache' = ResponseCacheService_clear(cache_present, cache)
    /\ lastOp' = [op |-> "clear", query |-> <<>>, ctx |-> None, response |-> "",
                  result |-> None, preKeys |-> KeySeq(cache),
                  preTs |-> None, at |-> now, afterSet |-> FALSE]
    /\ UNCHANGED <<CACHING_ENABLED, cache_present, now>>
    /\ UNCHANGED exceptCache

\* time passes; no code runs (there is no background sweep)
Tick ==
    /\ now < MaxTime
    /\ now' = now + 1
    /\ UNCHANGED <<CACHING_ENABLED, cache_present, cache, lastOp>>
    /\ UNCHANGED exceptCache

NextCache ==
    \/ \E qc \in CacheCalls : Get(qc[1], qc[2])
    \/ \E qc \in CacheCalls, r \in CacheResponses : Set(qc[1], r, qc[2])
    \/ Clear
    \/ Tick

-----------------------------------------------------------------------------
(* RAGService.process_query: concurrent callers sharing the response cache *)

max_contexts_per_query == 8

\* msg.get("content", "")[:50]
KeyContextChars == 50

\* the context fingerprint process_query derives from the history: None for
\* no history, else the first characters of the last two messages, joined
cache_key_context(conversation_history) ==
    IF conversation_history = None \/ conversation_history[1] = <<>>
    THEN None
    ELSE LET last == LastN(conversation_history[1], 2)
         IN  Some(join(<<"|">>,
                       [i \in 1..Len(last) |->
                           Take(last[i].content, KeyContextChars)]))

\* retrieve_context as one function of its arguments and of what the
\* classification call, the expansion call and the hybrid queries do
retrieve_context(query, collection_names, limit, use_query_expansion, enabled, world) ==
    LET names == routed_collection_names(collection_names, enabled,
                                         world.classification)
        queries == queries_to_search(query, use_query_expansion, world.expansion)
        results_list ==
            [v \in 1..Len(queries) |->
                IF world.client_ok
                THEN search_similar(names, world.hybrid, limit * 2,
                                    similarity_score_threshold)
                ELSE <<>>]
    IN  top_results(results_list, query, limit)

\* mutant of TopLevelBoundary: the exception leaves process_query
TopLevelBoundary_propagates(error) == [kind |-> "raised", response |-> None]

\* process_query's `except Exception as e: return {...}`
TopLevelBoundary(error) ==
    [kind |-> "returned",
     response |-> Some([answer |-> APOLOGY_PROCESSING, error |-> error])]

ReturnValue(response) == [kind |-> "returned", response |-> Some(response)]

NoOutcome == [kind |-> "none", response |-> None]

\* str(e) of the UnicodeEncodeError
EncodeErrorText == "'utf-8' codec can't encode character '\\ud800'"

\* what the outside world does during one retrieve_context
OnlySkinTone(objects) ==
    [c \in Range(get_all_nail_collections) |->
        IF c = NAIL_SKIN_TONE THEN Returned(objects) ELSE Raised]

PQWorlds ==
    {[classification |-> Returned(<<NAIL_SKIN_TONE>>),
      expansion |-> Returned(<< <<"n">> >>),
      client_ok |-> TRUE,
      hybrid |-> OnlySkinTone(<<Obj("d1", 0, Some(Txt_r), Some(Txt_z), 80)>>)],
     [classification |-> Raised,
      expansion |-> Raised,
      client_ok |-> FALSE,
      hybrid |-> OnlySkinTone(<<>>)],
     [classification |-> Raised,
      expansion |-> Raised,
      client_ok |-> TRUE,
      hybrid |-> OnlySkinTone(<<[Obj("d2", 1, Some(Txt_z), Some(Txt_z), 90)
                                   EXCEPT !.category = None]>>)]}

GenOutcomes == {Raised, Completion(Some(Txt_r), Some(7))}

Msg(content) == [role |-> "user", content |-> content]

PQArgs ==
    {[query |-> Txt_R_n, conversation_history |-> None, use_cache |-> TRUE],
     [query |-> Txt_R_n, conversation_history |-> Some(<<Msg(<<"b">>)>>),
      use_cache |-> TRUE],
     [query |-> <<LoneSurrogate>>, conversation_history |-> None,
      use_cache |-> TRUE],
     [query |-> Txt_z, conversation_history |-> None, use_cache |-> FALSE]}

Procs == {"p1", "p2"}

\* pc: idle, retrieve (awaiting retrieve_context), generate (awaiting
\* generate_response), done.  failed: the stage that failed, if one did.
\* hit: the call returned from the cache.  stored / full_at_store: the call
\* stored its response, and the cache was full when it did.  trace: the
\* stages the call has invoked so far, in the order it invoked them.
PQIdle == [pc |-> "idle", trace |-> <<>>,
           args |-> [query |-> <<>>, conversation_history |-> None,
                     use_cache |-> FALSE],
           context |-> <<>>, outcome |-> NoOutcome, failed |-> "none",
           hit |-> FALSE, stored |-> FALSE, full_at_store |-> FALSE]

Awaiting(args, pc, context, trace) ==
    [pc |-> pc, trace |-> trace, args |-> args, context |-> context, outcome |-> NoOutcome,
     failed |-> "none", hit |-> FALSE, stored |-> FALSE,
     full_at_store |-> FALSE]

InitPQ == pq = [p \in Procs |-> PQIdle]

\* process_query up to its first await: the cache check
PQCall(p, args) ==
    /\ pq[p].pc \in {"idle", "done"}
    /\ IF args.use_cache /\ CACHING_ENABLED
       THEN LET cache_key_ctx == cache_key_context(args.conversation_history)
                trace == <<"cache_check">>
            IN  IF cache_present
                   /\ encode_raises(cache_string(args.query, cache_key_ctx))
                THEN /\ cache' = cache
                     /\ pq' = [pq EXCEPT ![p] =
                                  [Awaiting(args, "done", <<>>, trace) EXCEPT
                                      !.outcome = TopLevelBoundary(EncodeErrorText),
                                      !.failed = "lookup"]]
                ELSE LET r == ResponseCacheService_get(cache_present, cache,
                                  args.query, cache_key_ctx, now)
                     IN  /\ cache' = r.store
                         /\ pq' = [pq EXCEPT ![p] =
                                      IF r.result # None
                                      THEN [Awaiting(args, "done", <<>>, trace) EXCEPT
                                               !.outcome = ReturnValue(r.result[1]),
                                               !.hit = TRUE]
                                      ELSE Awaiting(args, "retrieve", <<>>,
                                                    trace)]
       ELSE /\ cache' = cache
            /\ pq' = [pq EXCEPT ![p] = Awaiting(args, "retrieve", <<>>, <<>>)]
    /\ UNCHANGED exceptPQ

\* Step 1: retrieve_context returns
PQRetrieve(p) ==
    /\ pq[p].pc = "retrieve"
    /\ \E world \in PQWorlds :
           pq' = [pq EXCEPT ![p] =
                     Awaiting(pq[p].args, "generate",
                              retrieve_context(pq[p].args.query, None,
                                               max_contexts_per_query,
                                               QUERY_EXPANSION_ENABLED,
                                               route_enabled, world),
                              Append(pq[p].trace, "retrieve"))]
    /\ UNCHANGED cache
    /\ UNCHANGED exceptPQ

\* mutant of generate_stages: the response is stored before it is generated
generate_stages_store_first(call, caching) ==
    (IF caching THEN <<"store">> ELSE <<>>)
        \o <<"generate">>
        \o (IF call.raised THEN <<>> ELSE <<"score">>)

\* what process_query invokes once it has the context: the generation call,
\* the scoring of the answer when that call returned, and the cache store
generate_stages(call, caching) ==
    <<"generate">>
        \o (IF call.raised THEN <<>> ELSE <<"score">>)
        \o (IF caching THEN <<"store">> ELSE <<>>)

\* mutant of after_generate: a failed generation is not returned, the call
\* waits to be retried
after_generate_waits(failed) == IF failed THEN "waiting" ELSE "done"

\* where process_query stands once generate_response has returned: it goes
\* on to `return response`, whatever generate_response returned
after_generate(failed) == "done"

\* Step 2: generate_response returns; the sources are attached, the response
\* is cached and returned
PQGenerate(p) ==
    /\ pq[p].pc = "generate"
    /\ \E call \in GenOutcomes :
           LET args == pq[p].args
               context == pq[p].context
               response == WithContextSources(
                               generate_response(args.query, context, call),
                               context)
               caching == args.use_cache /\ CACHING_ENABLED
           IN  /\ cache' = IF caching
                           THEN ResponseCacheService_set(cache_present, cache,
                                    args.query, response,
                                    cache_key_context(args.conversation_history),
                                    now)
                           ELSE cache
               /\ pq' = [pq EXCEPT ![p] =
                            [Awaiting(args,
                                      after_generate(GenerationFails(context, call)),
                                      <<>>,
                                      pq[p].trace \o generate_stages(call, caching))
                             EXCEPT
                                !.outcome = ReturnValue(response),
                                !.failed = IF GenerationFails(context, call)
                                           THEN "generation" ELSE "none",
                                !.stored = caching /\ cache_present,
                                !.full_at_store = /\ caching /\ cache_present
                                                  /\ CacheFull(cache)]]
    /\ UNCHANGED exceptPQ

\* other users of the cache service, while process_query calls are in flight
PQDirectCalls == {<< <<"a">>, None >>}

OtherGet(q, c) ==
    /\ cache' = ResponseCacheService_get(cache_present, cache, q, c, now).store
    /\ UNCHANGED pq
    /\ UNCHANGED exceptPQ

OtherSet(q, r, c) ==
    /\ cache' = ResponseCacheService_set(cache_present, cache, q, r, c, now)
    /\ UNCHANGED pq
    /\ UNCHANGED exceptPQ

OtherClear ==
    /\ cache' = ResponseCacheService_clear(cache_present, cache)
    /\ UNCHANGED pq
    /\ UNCHANGED exceptPQ

NextPQ ==
    \/ \E p \in Procs, args \in PQArgs : PQCall(p, args)
    \/ \E p \in Procs : PQRetrieve(p)
    \/ \E p \in Procs : PQGenerate(p)
    \/ \E qc \in PQDirectCalls : OtherGet(qc[1], qc[2])
    \/ \E qc \in PQDirectCalls : OtherSet(qc[1], [answer |-> Txt_r], qc[2])
    \/ OtherClear

-----------------------------------------------------------------------------
(* ChatService.process_message and stream_response, the conversation's     *)
(* short-term memory, and the WebSocket handler.  A text shown to the user  *)
(* is a sequence of parts; f"Error: {str(e)}" is <<"Error: ", str(e)>>.     *)

SHORT_TERM_MEMORY_LIMIT == 10

\* ConversationManager.add_message on one conversation's list
add_message(store, role, content) ==
    LET appended == Append(store, [role |-> role, content |-> content])
    IN  IF Len(appended) > SHORT_TERM_MEMORY_LIMIT
        THEN LastN(appended, SHORT_TERM_MEMORY_LIMIT)
        ELSE appended

\* str(e) of the exceptions the chat entry points can meet
InitializeErrorText == "Could not connect to Weaviate"
StreamErrorText == "'async for' requires an object with __aiter__ method, got coroutine"
AttributeErrorText == "'list' object has no attribute 'get'"

ChatErrors == {InitializeErrorText, StreamErrorText}

RawErrorTexts ==
    {ErrorText, EncodeErrorText, InitializeErrorText, StreamErrorText,
     AttributeErrorText}

APOLOGY_MESSAGE ==
    <<"I apologize, but I encountered an error processing your message. Please try again.">>

UserText == <<"h", "i">>

Languages == {"en", "fi"}

\* translate_response: the translation, or the text itself when the language
\* is English or the translation call fails
translate_response(text, language, ok) ==
    IF language = "en" \/ ~ok THEN text ELSE <<"[" \o language \o "]">> \o text

\* what process_query can hand to process_message
ChatContext ==
    retrieve_context(Txt_R_n, None, max_contexts_per_query, TRUE, TRUE,
                     CHOOSE world \in PQWorlds :
                         world.client_ok /\ world.classification # Raised)

ChatRagResponses ==
    {WithContextSources(generate_response(Txt_R_n, context, call), context) :
         call \in GenOutcomes, context \in {<<>>, ChatContext}}
    \cup {TopLevelBoundary(EncodeErrorText).response[1]}

\* the dict process_message returns on success
MessageResponse(rag_response, answer, language) ==
    [answer |-> answer,
     language |-> language,
     context_sources |-> IF "context_sources" \in DOMAIN rag_response
                         THEN rag_response.context_sources ELSE <<>>,
     image_analyzed |-> FALSE,
     tokens_used |-> IF "tokens_used" \in DOMAIN rag_response
                     THEN rag_response.tokens_used ELSE 0]

\* the dict process_message returns from its except branch
MessageFailure(error) ==
    [answer |-> APOLOGY_MESSAGE,
     language |-> "en",
     context_sources |-> <<>>,
     image_analyzed |-> FALSE,
     tokens_used |-> 0,
     error |-> error]

PMIdle == [pc |-> "idle", language |-> "en", response |-> None]

SRIdle == [pc |-> "idle", language |-> "en", full_response |-> <<>>, chunks |-> 0]

WSIdle == [pc |-> "receive", frames |-> <<>>, full_response |-> <<>>]

InitChat ==
    /\ memory = <<>>
    /\ turns = 0
    /\ pm = PMIdle
    /\ sr = SRIdle
    /\ ws = WSIdle

\* process_message is called; steps 1 to 4 run and process_query is awaited,
\* or one of them raises and the except branch returns
PMCall ==
    /\ pm.pc \in {"idle", "done"}
    /\ turns < MaxTurns
    /\ turns' = turns + 1
    /\ \/ \E language \in Languages :
              pm' = [pc |-> "rag", language |-> language, response |-> None]
       \/ \E error \in ChatErrors :
              pm' = [pc |-> "done", language |-> "en",
                     response |-> Some(MessageFailure(error))]
    /\ UNCHANGED <<memory, sr, ws>>
    /\ UNCHANGED exceptChat

\* process_query returns; steps 6 to 8 and the return
PMAnswer ==
    /\ pm.pc = "rag"
    /\ \E rag_response \in ChatRagResponses, ok \in BOOLEAN :
           LET answer == translate_response(rag_response.answer, pm.language, ok)
           IN  /\ memory' = add_message(add_message(memory, "user", UserText),
                                        "assistant", answer)
               /\ pm' = [pc |-> "done", language |-> pm.language,
                         response |-> Some(MessageResponse(rag_response, answer,
                                                           pm.language))]
    /\ UNCHANGED <<turns, sr, ws>>
    /\ UNCHANGED exceptChat

Frame(type, text) == [type |-> type, text |-> text]

\* what a client may send
ClientMessages == {"ping", "not json", "json list", "empty", "bad image", "text"}

\* one iteration of the handler's loop up to its first await after the
\* received message is parsed
WSReceive(data) ==
    /\ ws.pc = "receive"
    /\ sr.pc = "idle"
    /\ data = "text" => turns < MaxTurns
    /\ turns' = IF data = "text" THEN turns + 1 ELSE turns
    /\ ws' = CASE data = "ping" ->
                    [WSIdle EXCEPT !.frames = <<Frame("pong", <<>>)>>]
               [] data = "not json" ->
                    [WSIdle EXCEPT !.frames =
                        <<Frame("error", <<"Invalid JSON format">>)>>]
               [] data = "json list" ->
                    [WSIdle EXCEPT !.frames =
                        <<Frame("error", <<AttributeErrorText>>)>>]
               [] data = "empty" ->
                    [WSIdle EXCEPT !.frames =
                        <<Frame("error", <<"Message or image required">>)>>]
               [] data = "bad image" ->
                    [WSIdle EXCEPT !.frames =
                        <<Frame("error", <<"Invalid image data">>)>>]
               [] OTHER ->
                    [pc |-> "stream", frames |-> <<Frame("start", <<>>)>>,
                     full_response |-> <<>>]
    /\ sr' = IF data = "text" THEN [SRIdle EXCEPT !.pc = "prepare"] ELSE sr
    /\ UNCHANGED <<memory, pm>>
    /\ UNCHANGED exceptChat

\* mutant of Relay: the token is sent and not added to full_response
Relay_forgets_token(handler, token) ==
    [handler EXCEPT !.frames = Append(@, Frame("token", token))]

\* the handler's loop body for one yielded token
Relay(handler, token) ==
    [handler EXCEPT !.full_response = @ \o token,
                    !.frames = Append(@, Frame("token", token))]

\* stream_response's except branch: yield f"Error: {str(e)}", then finish
SRFail(error) ==
    /\ sr' = [sr EXCEPT !.pc = "finished"]
    /\ ws' = Relay(ws, <<"Error: ", error>>)

\* stream_response before the completion stream is opened
SRPrepare ==
    /\ ws.pc = "stream"
    /\ sr.pc = "prepare"
    /\ \/ \E language \in Languages :
              /\ sr' = [sr EXCEPT !.pc = "streaming", !.language = language]
              /\ ws' = ws
       \/ SRFail(InitializeErrorText)
    /\ UNCHANGED <<memory, turns, pm>>
    /\ UNCHANGED exceptChat

\* one step of `async for chunk in ...`: a chunk with content is yielded and
\* relayed, a chunk without content is skipped, or the iteration raises
SRChunk ==
    /\ ws.pc = "stream"
    /\ sr.pc = "streaming"
    /\ \/ /\ sr.chunks < MaxTokens
          /\ \E token \in {<<"o">>, <<"k">>} :
                 /\ sr' = [sr EXCEPT !.chunks = @ + 1,
                                     !.full_response = @ \o token]
                 /\ ws' = Relay(ws, token)
       \/ /\ sr.chunks < MaxTokens
          /\ sr' = [sr EXCEPT !.chunks = @ + 1]
          /\ ws' = ws
       \/ SRFail(StreamErrorText)
    /\ UNCHANGED <<memory, turns, pm>>
    /\ UNCHANGED exceptChat

\* the stream is exhausted: the user message is recorded; the assistant
\* message too unless the reply is first to be translated
SREnd ==
    /\ ws.pc = "stream"
    /\ sr.pc = "streaming"
    /\ IF sr.language = "en"
       THEN /\ memory' = add_message(add_message(memory, "user", UserText),
                                     "assistant", sr.full_response)
            /\ sr' = [sr EXCEPT !.pc = "finished"]
       ELSE /\ memory' = add_message(memory, "user", UserText)
            /\ sr' = [sr EXCEPT !.pc = "translate"]
    /\ UNCHANGED <<turns, pm, ws>>
    /\ UNCHANGED exceptChat

\* translate_response returns and the assistant message is recorded
SRTranslate ==
    /\ ws.pc = "stream"
    /\ sr.pc = "translate"
    /\ \E ok \in BOOLEAN :
           LET translated == translate_response(sr.full_response, sr.language, ok)
           IN  /\ memory' = add_message(memory, "assistant", translated)
               /\ sr' = [sr EXCEPT !.pc = "finished", !.full_response = translated]
    /\ UNCHANGED <<turns, pm, ws>>
    /\ UNCHANGED exceptChat

\* the generator is exhausted: the handler sends the completion signal
WSComplete ==
    /\ ws.pc = "stream"
    /\ sr.pc = "finished"
    /\ ws' = [ws EXCEPT !.pc = "receive",
                        !.frames = Append(@, Frame("complete", ws.full_response))]
    /\ sr' = SRIdle
    /\ UNCHANGED <<memory, turns, pm>>
    /\ UNCHANGED exceptChat

NextChat ==
    \/ PMCall
    \/ PMAnswer
    \/ \E data \in ClientMessages : WSReceive(data)
    \/ SRPrepare
    \/ SRChunk
    \/ SREnd
    \/ SRTranslate
    \/ WSComplete

-----------------------------------------------------------------------------
(* expand_query over every expansion response, and the variants            *)
(* retrieve_context takes from it                                          *)

ExpQueries == {Txt_R_n, <<>>}

\* lines of an expansion response: plain, padded, numbered, bulleted, empty
ExpLines ==
    {<<"r">>, <<" ", "n", " ">>, <<"2", ".", "r">>, <<"4", ".", "r">>,
     <<"-", "r">>, <<>>}

\* the call raises, returns no content, or returns 1..MaxLines lines
ExpansionOutcomes ==
    {Raised, Returned(None)}
    \cup {Returned(t) : t \in SeqsUpTo(ExpLines, MaxLines) \ {<<>>}}

InitExp ==
    /\ exp_pc = "idle"
    /\ exp_query = <<>>
    /\ exp_use = FALSE
    /\ exp_call = Raised
    /\ exp_result = <<>>
    /\ exp_queries = <<>>

\* retrieve_context reaches step 2 with this query; the call will end as `call`
ExpCall ==
    /\ exp_pc = "idle"
    /\ exp_pc' = "call"
    /\ exp_query' \in ExpQueries
    /\ exp_use' \in BOOLEAN
    /\ exp_call' \in ExpansionOutcomes
    /\ UNCHANGED <<exp_result, exp_queries>>
    /\ UNCHANGED exceptExp

\* expand_query runs to its return, and step 2 takes its variants
ExpandQuery ==
    /\ exp_pc = "call"
    /\ exp_result' = expand_query(exp_query, exp_call)
    /\ exp_queries' = queries_to_search(exp_query, exp_use, exp_call)
    /\ exp_pc' = "done"
    /\ UNCHANGED <<exp_query, exp_use, exp_call>>
    /\ UNCHANGED exceptExp

\* the searches are issued and the next call can begin
ExpReturn ==
    /\ exp_pc = "done"
    /\ exp_pc' = "idle"
    /\ exp_query' = <<>>
    /\ exp_use' = FALSE
    /\ exp_call' = Raised
    /\ exp_result' = <<>>
    /\ exp_queries' = <<>>
    /\ UNCHANGED exceptExp

NextExp ==
    \/ ExpCall
    \/ ExpandQuery
    \/ ExpReturn

-----------------------------------------------------------------------------
(* Steps 4 and 5 of retrieve_context on their own: the lists the search     *)
(* tasks returned are combined, reranked and cut to limit.                  *)

Txt_q == <<"q">>

\* the last has no word
RerankQueries == {Txt_R_n, Txt_q, <<" ">>}

\* a passage as _search_collection returns it
Passage(collection, document_id, source_title, content, score) ==
    [collection |-> collection, document_id |-> document_id,
     category |-> Some(Txt_cat), content |-> content, chunk_index |-> 0,
     source_title |-> source_title, score |-> score]

RerankPassages ==
    {Passage(IF d = "d1" THEN NAIL_COLOR_THEORY ELSE NAIL_SKIN_TONE,
             d, Some(t), Some(c), sc) :
        d \in {"d1", "d2"}, t \in {Txt_z, Txt_r, Txt_nr},
        c \in {Txt_z, Txt_nr}, sc \in {76, 80, 95}}
    \cup {Passage(NAIL_SKIN_TONE, "d3", None, Some(Txt_z), 78)}

\* results_list of two search tasks
RerankLists ==
    {<< <<a>>, <<b>> >> : a \in RerankPassages, b \in RerankPassages}
    \cup {<< <<>>, <<a>> >> : a \in RerankPassages}
    \cup {<< <<>>, <<>> >>}

InitRerank ==
    /\ rk_pc = "idle"
    /\ rk_query = <<>>
    /\ rk_lists = <<>>
    /\ rk_limit = 0
    /\ rk_result = <<>>

\* gather has returned the lists of the search tasks
RerankCall ==
    /\ rk_pc = "idle"
    /\ rk_pc' = "call"
    /\ rk_query' \in RerankQueries
    /\ rk_lists' \in RerankLists
    /\ rk_limit' \in 0..MaxLimit
    /\ UNCHANGED rk_result
    /\ UNCHANGED exceptRerank

\* Step 4: combine and rerank; step 5: take the top results
Rerank ==
    /\ rk_pc = "call"
    /\ rk_result' = top_results(rk_lists, rk_query, rk_limit)
    /\ rk_pc' = "done"
    /\ UNCHANGED <<rk_query, rk_lists, rk_limit>>
    /\ UNCHANGED exceptRerank

RerankReturn ==
    /\ rk_pc = "done"
    /\ rk_pc' = "idle"
    /\ rk_query' = <<>>
    /\ rk_lists' = <<>>
    /\ rk_limit' = 0
    /\ rk_result' = <<>>
    /\ UNCHANGED exceptRerank

NextRerank ==
    \/ RerankCall
    \/ Rerank
    \/ RerankReturn

-----------------------------------------------------------------------------
(* _validate_answer_quality as generate_response calls it *)

\* a text of n words: the word, one character long, n times over
Words(word, n) ==
    [i \in 1..(2 * n - 1) |-> IF i % 2 = 1 THEN word[1] ELSE " "]

QualAnswers ==
    {<<>>, Txt_r, Txt_z, <<"I", " ", "c", "a", "n", "n", "o", "t">>,
     Words(Txt_r, 19), Words(Txt_r, 20), Words(Txt_r, 500), Words(Txt_z, 501)}

\* a passage of the context: what retrieve_context returned
ContextPassage(source_title, category) ==
    [WithRerankedScore(Passage(NAIL_SKIN_TONE, "d1", Some(Txt_z), Some(Txt_z), 80),
                       Txt_q)
        EXCEPT !.source_title = source_title, !.category = category]

QualContexts ==
    LET P_r == ContextPassage(Some(Txt_r), Some(Txt_cat))
        P_z == ContextPassage(Some(Txt_z), Some(Txt_cat))
        P_empty == ContextPassage(Some(<<>>), Some(Txt_cat))
        P_nocat == ContextPassage(Some(Txt_r), None)
        P_notitle == ContextPassage(None, Some(Txt_cat))
    IN  {<<>>, <<P_r>>, <<P_z>>, <<P_empty>>, <<P_nocat>>, <<P_notitle>>,
         <<P_z, P_r>>, <<P_z, P_z, P_z, P_r>>, <<P_z, P_z, P_z, P_nocat>>}

QualQueries == {Txt_R_n, <<>>}

InitQual ==
    /\ q_pc = "idle"
    /\ q_answer = <<>>
    /\ q_context = <<>>
    /\ q_query = <<>>
    /\ q_outcome = Returned(0)

QualityCall ==
    /\ q_pc = "idle"
    /\ q_pc' = "call"
    /\ q_answer' \in QualAnswers
    /\ q_context' \in QualContexts
    /\ q_query' \in QualQueries
    /\ UNCHANGED q_outcome
    /\ UNCHANGED exceptQual

\* the call runs: it raises, or returns its score
ValidateAnswerQuality ==
    /\ q_pc = "call"
    /\ q_outcome' = IF QualityRaises(q_answer, q_context)
                    THEN Raised
                    ELSE Returned(_validate_answer_quality(q_answer, q_context,
                                                           q_query))
    /\ q_pc' = "done"
    /\ UNCHANGED <<q_answer, q_context, q_query>>
    /\ UNCHANGED exceptQual

QualityReturn ==
    /\ q_pc = "done"
    /\ q_pc' = "idle"
    /\ q_answer' = <<>>
    /\ q_context' = <<>>
    /\ q_query' = <<>>
    /\ q_outcome' = Returned(0)
    /\ UNCHANGED exceptQual

NextQual ==
    \/ QualityCall
    \/ ValidateAnswerQuality
    \/ QualityReturn

-----------------------------------------------------------------------------
(* Specifications: one per component, the other components at rest *)

\* the cache service under arbitrary callers and a passing clock
InitSpecCache == InitCache /\ InitRoute /\ RetrAtRest /\ InitPQ /\ InitChat
    /\ InitExp /\ InitRerank /\ InitQual
SpecCache == InitSpecCache /\ [][NextCache]_vars

\* route_query over every classification outcome
InitSpecRoute == InitRoute /\ CacheIdle /\ RetrAtRest /\ InitPQ /\ InitChat
    /\ InitExp /\ InitRerank /\ InitQual
SpecRoute == InitSpecRoute /\ [][NextRoute]_vars

\* retrieve_context over every outcome of its calls
InitSpecRetrieve == InitRetr /\ CacheIdle /\ InitRoute /\ InitPQ /\ InitChat
    /\ InitExp /\ InitRerank /\ InitQual
SpecRetrieve == InitSpecRetrieve /\ [][NextRetr]_vars

\* concurrent process_query calls and other cache users, within a window
\* shorter than ttl (expiry is the subject of SpecCache)
InitSpecPQ == InitPQ /\ InitCache /\ InitRoute /\ RetrAtRest /\ InitChat
    /\ InitExp /\ InitRerank /\ InitQual
SpecPQ == InitSpecPQ /\ [][NextPQ]_vars

\* process_query callers alone on the cache, where every awaited call returns
\* or raises: the event loop resumes a coroutine whose awaited
\* retrieve_context or generate_response has completed
PQLiveArgs == {args \in PQArgs : args.conversation_history = None}

NextPQLive ==
    \/ \E p \in Procs, args \in PQLiveArgs : PQCall(p, args)
    \/ \E p \in Procs : PQRetrieve(p)
    \/ \E p \in Procs : PQGenerate(p)

SpecPQLive ==
    /\ InitSpecPQ
    /\ [][NextPQLive]_vars
    /\ \A p \in Procs : WF_vars(PQRetrieve(p)) /\ WF_vars(PQGenerate(p))

\* one conversation: process_message calls and a WebSocket connection
InitSpecChat == InitChat /\ InitPQ /\ CacheIdle /\ InitRoute /\ RetrAtRest
    /\ InitExp /\ InitRerank /\ InitQual
SpecChat == InitSpecChat /\ [][NextChat]_vars

\* expand_query over every expansion response
InitSpecExpand == InitExp /\ InitChat /\ InitPQ /\ CacheIdle /\ InitRoute
    /\ RetrAtRest /\ InitRerank /\ InitQual
SpecExpand == InitSpecExpand /\ [][NextExp]_vars

\* the merge and rerank over every pair of search results
InitSpecRerank == InitRerank /\ InitQual /\ InitExp /\ InitChat /\ InitPQ
    /\ CacheIdle /\ InitRoute /\ RetrAtRest
SpecRerank == InitSpecRerank /\ [][NextRerank]_vars

\* the quality score over answers and contexts
InitSpecQuality == InitQual /\ InitRerank /\ InitExp /\ InitChat /\ InitPQ
    /\ CacheIdle /\ InitRoute /\ RetrAtRest
SpecQuality == InitSpecQuality /\ [][NextQual]_vars

-----------------------------------------------------------------------------
(* Properties of the response cache *)

\* a step that is a call of get / set on the service (Tick leaves lastOp alone
\* and advances the clock)
GetStep == lastOp'.op = "get" /\ now' = now
SetStep == lastOp'.op = "set" /\ now' = now

LastKey == _generate_key(lastOp.query, lastOp.ctx)
LastKey_next == _generate_key(lastOp'.query, lastOp'.ctx)

\* seq without the element x
Without(seq, x) == SelectSeq(seq, LAMBDA y : y # x)

C4_RoundTrip ==
    [][(/\ GetStep
        /\ cache_present
        /\ lastOp.op = "set"
        /\ lastOp'.query = lastOp.query
        /\ lastOp'.ctx = lastOp.ctx
        /\ now - lastOp.at < ttl)
       => lastOp'.result = Some(lastOp.response)]_vars

\* C4 witness: a get right after a set of the same query and context, in time
C4_Witness ==
    /\ lastOp.op = "get"
    /\ lastOp.afterSet
    /\ cache_present
    /\ lastOp.preTs # None
    /\ lastOp.at - lastOp.preTs[1] < ttl
    /\ lastOp.result # None

\* C5: a get whose entry is ttl or more seconds old returns None and removes
\* the entry; time passing alone removes nothing, and a get removes an entry
\* only when it is that old.
C5_LazyExpiry ==
    [][/\ (GetStep /\ cache_present /\ lastOp'.preTs # None
              /\ now - lastOp'.preTs[1] >= ttl)
          => (lastOp'.result = None /\ LastKey_next \notin KeysOf(cache'))
       /\ (now' # now) => cache' = cache
       /\ (GetStep /\ cache' # cache)
          => (lastOp'.preTs # None /\ now - lastOp'.preTs[1] >= ttl)]_vars

\* C5 witness: a get has found its entry ttl or more seconds old
C5_Witness ==
    /\ lastOp.op = "get"
    /\ cache_present
    /\ lastOp.preTs # None
    /\ lastOp.at - lastOp.preTs[1] >= ttl
    /\ lastOp.result = None

\* C6: with caching disabled nothing is ever stored and every get returns None.
C6_DisabledCache ==
    ~CACHING_ENABLED =>
        /\ cache = <<>>
        /\ lastOp.op = "get" => lastOp.result = None

\* C6 witness: caching is disabled and a get follows a set of the same key
C6_Witness ==
    /\ ~CACHING_ENABLED
    /\ lastOp.op = "get"
    /\ lastOp.afterSet

\* C26: a set on a key the cache already holds removes no other key and
\* leaves the number of entries as it was, at max_size or below it.
C26_OverwriteKeepsOtherKeys ==
    (/\ lastOp.op = "set"
     /\ cache_present
     /\ LastKey \in {lastOp.preKeys[i] : i \in 1..Len(lastOp.preKeys)})
    => /\ KeysOf(cache) = {lastOp.preKeys[i] : i \in 1..Len(lastOp.preKeys)}
       /\ Len(cache) = Len(lastOp.preKeys)

\* C27: a get returns a response only if a set was made with the same query
\* and the same context fingerprint.  Stated for a get that directly follows
\* the one set made on an empty cache: it returns nothing when its query or
\* its fingerprint differs from the set's.
C27_NoSharedEntry ==
    [][(/\ GetStep
        /\ lastOp.op = "set"
        /\ lastOp.preKeys = <<>>
        /\ <<lastOp'.query, lastOp'.ctx>> # <<lastOp.query, lastOp.ctx>>)
       => lastOp'.result = None]_vars

-----------------------------------------------------------------------------
(* Properties of the category router *)

AllNames == {get_all_nail_collections[i] : i \in 1..Len(get_all_nail_collections)}

NamesFound(content) == {name \in AllNames : OccursIn(name, content)}

\* C10: route_query returns the full collection list whenever the
\* classification call raised, or its text names no known collection, or it
\* names all of them.
C10_RouterFailOpen ==
    (/\ route_pc = "done"
     /\ \/ route_call.raised
        \/ NamesFound(route_call.content) = {}
        \/ NamesFound(route_call.content) = AllNames)
    => route_result = get_all_nail_collections

\* C10 witness: an enabled router has returned after a classification that
\* named all four collections
C10_Witness ==
    /\ route_pc = "done"
    /\ route_enabled
    /\ ~route_call.raised
    /\ NamesFound(route_call.content) = AllNames
    /\ route_result = get_all_nail_collections

\* C11: a result of route_query other than the full collection set holds one
\* or two collection names, each of them a known collection.
C11_OneOrTwoCollections ==
    (route_pc = "done" /\ route_result # get_all_nail_collections) =>
        /\ Len(route_result) \in {1, 2}
        /\ \A i \in 1..Len(route_result) : route_result[i] \in AllNames

-----------------------------------------------------------------------------
(* Properties of retrieve_context *)

\* C1: the list retrieve_context returns never holds two passages with the
\* same (document_id, chunk_index) pair, whatever the routing, the expansion
\* and the searches produced.
C1_NoDuplicatePassages ==
    r_pc = "done" =>
        \A i, j \in 1..Len(r_result) :
            DedupKey(r_result[i]) = DedupKey(r_result[j]) => i = j

\* two search tasks returned the same passage and the call returned passages
C1_Witness ==
    /\ r_pc = "done"
    /\ Len(r_result) >= 2
    /\ \E v, w \in 1..Len(r_searches) :
           /\ v # w
           /\ \E i \in 1..Len(r_searches[v].results) :
              \E j \in 1..Len(r_searches[w].results) :
                  DedupKey(r_searches[v].results[i]) = DedupKey(r_searches[w].results[j])

-----------------------------------------------------------------------------
(* Properties of process_query *)

\* C2: the response cache never holds more than max_size entries, whatever
\* get, set and clear calls are made, those of interleaved process_query
\* calls included.
C2_CacheBounded == Len(cache) <= max_size

\* a process_query call stored its response into a full cache, which is full
C2_Witness ==
    /\ Len(cache) = max_size
    /\ \E p \in Procs :
           pq[p].pc = "done" /\ pq[p].stored /\ pq[p].full_at_store

\* C7: a process_query call that has ended has returned a response object; no
\* failing stage makes it end by raising.
C7_NeverPropagates ==
    \A p \in Procs :
        pq[p].pc = "done" =>
            /\ pq[p].outcome.kind = "returned"
            /\ pq[p].outcome.response # None
            /\ "answer" \in DOMAIN pq[p].outcome.response[1]

\* a call ended after its cache lookup raised, and one after its generation
\* failed
C7_Witness ==
    /\ \E p \in Procs : pq[p].pc = "done" /\ pq[p].failed = "lookup"
    /\ \E p \in Procs : pq[p].pc = "done" /\ pq[p].failed = "generation"

\* C8: the response of a call in which a stage failed has one of the fixed
\* fallback answers, an empty context_sources list, tokens_used 0 and a
\* non-empty error.
C8_DegradedResponseShape ==
    \A p \in Procs :
        (pq[p].pc = "done" /\ pq[p].failed # "none") =>
            LET response == pq[p].outcome.response[1]
            IN  /\ response.answer \in {APOLOGY_GENERATION, APOLOGY_PROCESSING}
                /\ "error" \in DOMAIN response
                /\ response.error # ""
                /\ "context_sources" \in DOMAIN response
                /\ response.context_sources = <<>>
                /\ "tokens_used" \in DOMAIN response
                /\ response.tokens_used = 0

\* the stages of process_query, in the order of its code
Stages == <<"cache_check", "retrieve", "generate", "score", "store">>

StageIndex(stage) == CHOOSE k \in 1..Len(Stages) : Stages[k] = stage

\* no stage twice, and none before a stage that precedes it
InOrder(trace) ==
    \A i, j \in 1..Len(trace) :
        i < j => StageIndex(trace[i]) < StageIndex(trace[j])

\* the call looked its query up in the cache and found nothing
Miss(p) ==
    /\ pq[p].trace # <<>>
    /\ pq[p].trace[1] = "cache_check"
    /\ ~pq[p].hit
    /\ pq[p].failed # "lookup"

C20_FailedGenerationNotCached ==
    /\ \A i \in 1..Len(cache) : "error" \notin DOMAIN cache[i].response
    /\ \A p \in Procs :
           (pq[p].pc = "done" /\ pq[p].hit) =>
               "error" \notin DOMAIN pq[p].outcome.response[1]

\* C25: every process_query call that has started eventually returns, given
\* that each call it awaits returns or raises.
C25_EventuallyReturns ==
    \A p \in Procs :
        (pq[p].pc \in {"retrieve", "generate"}) ~> (pq[p].pc = "done")

\* a call that went through retrieval and a failed generation has returned
C25_Witness ==
    \E p \in Procs :
        /\ pq[p].pc = "done"
        /\ pq[p].failed = "generation"
        /\ Len(pq[p].trace) >= 3

\* the call used the cache and its lookup did not raise
Cached(p) ==
    /\ pq[p].pc = "done"
    /\ pq[p].args.use_cache
    /\ CACHING_ENABLED
    /\ pq[p].failed # "lookup"

\* C28: of two process_query calls with the same query and the same context
\* fingerprint, with no expiry and no eviction, at most one invokes the
\* generation call, and both return the same response.
C28_GeneratedOnce ==
    \A p, o \in Procs :
        (/\ p # o
         /\ Cached(p) /\ Cached(o)
         /\ pq[p].args = pq[o].args)
        => /\ ~(/\ "generate" \in Range(pq[p].trace)
                /\ "generate" \in Range(pq[o].trace))
           /\ pq[p].outcome = pq[o].outcome

-----------------------------------------------------------------------------
(* Properties of the chat entry points *)

ContainsRawError(text) == \E i \in 1..Len(text) : text[i] \in RawErrorTexts

\* C9: no text delivered to the user, as the answer of process_message or in
\* a frame sent over the WebSocket, contains the text of an exception.
C9_NoRawErrorToUser ==
    /\ pm.response # None => ~ContainsRawError(pm.response[1].answer)
    /\ \A i \in 1..Len(ws.frames) : ~ContainsRawError(ws.frames[i].text)

\* C14: the list retrieve_context returns is no longer than limit and is in
\* non-increasing order of reranked_score.
C14_BoundedAndSorted ==
    r_pc = "done" =>
        /\ Len(r_result) <= r_args.limit
        /\ \A i \in 1..(Len(r_result) - 1) :
               r_result[i].reranked_score >= r_result[i + 1].reranked_score

\* more candidates than limit, and the strongest of them did not come first
C14_Witness ==
    /\ r_pc = "done"
    /\ Len(r_result) = r_args.limit
    /\ Len(r_result) >= 2
    /\ r_result[1].reranked_score > r_result[2].reranked_score
    /\ LET pool == Flatten([v \in 1..Len(r_searches) |-> r_searches[v].results])
       IN  /\ Len(pool) > r_args.limit
           /\ DedupKey(pool[1]) # DedupKey(r_result[1])

\* the outcome of a hybrid query, with a raise replaced by an empty answer
Healed(outcome) == IF outcome.raised THEN Returned(<<>>) ELSE outcome

\* what a search task returns when its failed calls are taken to have
\* succeeded with nothing
HealedResults(search) ==
    IF ~search.client_ok
    THEN <<>>
    ELSE search_similar(r_collection_names,
                        [c \in DOMAIN search.hybrid |-> Healed(search.hybrid[c])],
                        r_args.limit * 2, similarity_score_threshold)

\* C15: a failed search call contributes nothing and changes nothing else:
\* each task returns what it would have returned had its failed calls found
\* no passage, and retrieve_context returns what it makes of those lists.
C15_FailureIsolated ==
    r_pc = "done" =>
        /\ \A v \in 1..Len(r_searches) :
               r_searches[v].results = HealedResults(r_searches[v])
        /\ r_result = top_results([v \in 1..Len(r_searches) |->
                                      HealedResults(r_searches[v])],
                                  r_args.query, r_args.limit)

\* one collection's search raised, one task could not get a client, and
\* passages of the calls that worked were returned
C15_Witness ==
    /\ r_pc = "done"
    /\ r_result # <<>>
    /\ \E v, w \in 1..Len(r_searches) :
           /\ ~r_searches[v].client_ok
           /\ r_searches[w].client_ok
           /\ \E c \in DOMAIN r_searches[w].hybrid : r_searches[w].hybrid[c].raised
           /\ r_searches[w].results # <<>>

\* the collections the search tasks query, in the order they are queried
SearchedNames ==
    IF r_collection_names = None
    THEN get_all_nail_collections
    ELSE r_collection_names[1]

\* the pool retrieve_context hands to the rerank
Pool == Flatten([v \in 1..Len(r_searches) |-> r_searches[v].results])

\* the passage is the object as the search of the collection returned it
IsObject(passage, collection_name, obj) ==
    /\ passage.collection = collection_name
    /\ passage.document_id = obj.document_id
    /\ passage.chunk_index = obj.chunk_index
    /\ passage.score = obj.score

\* C22: every object a per-collection hybrid search returned at or above the
\* similarity threshold, for any query variant, is in the pool that is
\* de-duplicated and reranked.
C22_NothingDiscardedBeforeRerank ==
    r_pc = "done" =>
        \A v \in 1..Len(r_searches) :
            r_searches[v].client_ok =>
                \A i \in 1..Len(SearchedNames) :
                    LET outcome == r_searches[v].hybrid[SearchedNames[i]]
                    IN  ~outcome.raised =>
                            \A k \in 1..Len(outcome.content) :
                                outcome.content[k].score >= similarity_score_threshold
                                => \E x \in 1..Len(Pool) :
                                       IsObject(Pool[x], SearchedNames[i],
                                                outcome.content[k])

\* the objects with the key that the search of the i-th collection returned
\* at or above the threshold for variant v
Occurrences(v, i, key) ==
    LET outcome == r_searches[v].hybrid[SearchedNames[i]]
    IN  IF ~r_searches[v].client_ok \/ outcome.raised
        THEN {}
        ELSE {obj \in Range(outcome.content) :
                 /\ obj.score >= similarity_score_threshold
                 /\ <<obj.document_id, obj.chunk_index>> = key}

\* the variants whose searches returned the key
VariantsWith(key) ==
    {v \in 1..Len(r_searches) :
        \E i \in 1..Len(SearchedNames) : Occurrences(v, i, key) # {}}

\* the variants that brought the key into the pool
VariantsPooling(key) ==
    {v \in 1..Len(r_searches) :
        \E k \in 1..Len(r_searches[v].results) :
            DedupKey(r_searches[v].results[k]) = key}

Least(S) == CHOOSE n \in S : \A m \in S : n <= m

\* C23 as stated: of the passages sharing a key the one kept is the first in
\* variant order and, within the variant, in the order of the collections.
C23_KeepsFirstByCollectionOrder ==
    r_pc = "done" =>
        \A x \in 1..Len(r_result) :
            LET key == DedupKey(r_result[x])
                v == Least(VariantsWith(key))
                i == Least({n \in 1..Len(SearchedNames) :
                               Occurrences(v, n, key) # {}})
            IN  \E obj \in Occurrences(v, i, key) :
                    IsObject(r_result[x], SearchedNames[i], obj)

\* C23: of the passages sharing a key the one kept is the first in the pool:
\* that of the first variant which brought the key into the pool and, within
\* that variant, the one with the highest raw score, the earliest collection
\* searched deciding between equal scores.
C23_KeepsFirstInPool ==
    r_pc = "done" =>
        \A x \in 1..Len(r_result) :
            LET key == DedupKey(r_result[x])
                v == Least(VariantsPooling(key))
                best == {i \in 1..Len(SearchedNames) :
                            \E obj \in Occurrences(v, i, key) :
                                \A j \in 1..Len(SearchedNames) :
                                    \A other \in Occurrences(v, j, key) :
                                        obj.score >= other.score}
                i == Least(best)
            IN  \E obj \in Occurrences(v, i, key) :
                    /\ IsObject(r_result[x], SearchedNames[i], obj)
                    /\ \A j \in 1..Len(SearchedNames) :
                           \A other \in Occurrences(v, j, key) :
                               obj.score >= other.score

\* a key came from two collections of one variant and again from a later
\* variant; the passage kept is the higher-scored one of the first variant,
\* which the second collection returned
C23_Witness ==
    /\ r_pc = "done"
    /\ Len(r_searches) >= 2
    /\ \E x \in 1..Len(r_result) :
           LET key == DedupKey(r_result[x])
           IN  /\ VariantsPooling(key) = 1..Len(r_searches)
               /\ Len(SearchedNames) >= 2
               /\ r_result[x].collection = SearchedNames[2]
               /\ \E obj \in Occurrences(1, 1, key) :
                      obj.score < r_result[x].score
               /\ \E k \in 1..Len(r_searches[2].results) :
                      /\ DedupKey(r_searches[2].results[k]) = key
                      /\ r_searches[2].results[k].score # r_result[x].score

-----------------------------------------------------------------------------
(* Properties of expand_query *)

\* C12: when the expansion's generation call raises, or returns a content
\* that cannot be parsed, expand_query returns exactly the list holding the
\* query, and retrieve_context searches with that one variant.
C12_ExpansionFallback ==
    (exp_pc = "done" /\ (exp_call.raised \/ exp_call.content = None)) =>
        /\ exp_result = <<exp_query>>
        /\ exp_queries = <<exp_query>>

\* expansion was asked for, the call failed, and the query is the one variant
C12_Witness ==
    /\ exp_pc = "done"
    /\ exp_use
    /\ exp_call.raised
    /\ exp_query = Txt_R_n
    /\ exp_queries = <<Txt_R_n>>

\* C13: the variants retrieve_context searches with are never none, begin
\* with the original query, and number at most MAX_QUERY_VARIANTS.
C13_VariantsBounded ==
    exp_pc = "done" =>
        /\ exp_queries # <<>>
        /\ exp_queries[1] = exp_query
        /\ Len(exp_queries) <= MAX_QUERY_VARIANTS

\* a response with more usable lines than fit: five variants are used
C13_Witness ==
    /\ exp_pc = "done"
    /\ ~exp_call.raised
    /\ Len(SelectSeq(exp_call.content, KeepsLine)) > 4
    /\ Len(exp_queries) = MAX_QUERY_VARIANTS

-----------------------------------------------------------------------------
(* Properties of _validate_answer_quality *)

\* C16: for every answer, context and query, _validate_answer_quality returns
\* a value in [0.0, 1.0], and exactly 0.0 when the answer or the context is
\* empty.
C16_QualityBounded ==
    q_pc = "done" =>
        /\ ~q_outcome.raised
        /\ q_outcome.content \in 0..100
        /\ (q_answer = <<>> \/ q_context = <<>>) => q_outcome.content = 0

-----------------------------------------------------------------------------
(* Properties of _rerank_results *)

\* the two passages differ in nothing the score is computed from but the title
SameButTitle(a, b) ==
    /\ a.content = b.content
    /\ a.score = b.score
    /\ a.category = b.category

\* C17: of two candidates that differ only in the title, the one whose title
\* holds one more distinct query word has the strictly greater reranked_score
\* when the other's is below 1.0, and an equal one (1.0) otherwise.
C17_TitleMatchMonotone ==
    rk_pc = "done" =>
        \A i, j \in 1..Len(rk_result) :
            (/\ SameButTitle(rk_result[i], rk_result[j])
             /\ title_matches(rk_result[i], rk_query)
                    = title_matches(rk_result[j], rk_query) + 1)
            => IF rk_result[j].reranked_score < 100
               THEN rk_result[i].reranked_score > rk_result[j].reranked_score
               ELSE rk_result[i].reranked_score = 100

\* one query word in one title, two in the other, and neither score capped
C17_Witness ==
    /\ rk_pc = "done"
    /\ \E i, j \in 1..Len(rk_result) :
           /\ SameButTitle(rk_result[i], rk_result[j])
           /\ title_matches(rk_result[j], rk_query) = 1
           /\ title_matches(rk_result[i], rk_query) = 2
           /\ rk_result[j].reranked_score < rk_result[i].reranked_score
           /\ rk_result[i].reranked_score < 100

\* no query word occurs in the title or the content of any candidate
NoMatch ==
    LET pool == Flatten(rk_lists)
    IN  \A k \in 1..Len(pool) :
            /\ pool[k].source_title # None
            /\ pool[k].content # None
            /\ title_matches(pool[k], rk_query) = 0
            /\ content_matches(pool[k], rk_query) = 0

\* a returned passage as it was before the rerank
Unranked(result) ==
    [collection |-> result.collection,
     document_id |-> result.document_id,
     category |-> result.category,
     content |-> result.content,
     chunk_index |-> result.chunk_index,
     source_title |-> result.source_title,
     score |-> result.score]

\* C18: when no query word occurs in any candidate's title or content, each
\* reranked_score is the raw score capped at 1.0, the candidates are returned
\* in the order of their raw scores, and limit = 1 returns exactly the
\* candidate with the highest raw score.
C18_NoMatchKeepsRawOrder ==
    (rk_pc = "done" /\ NoMatch) =>
        LET unique == unique_results(Flatten(rk_lists))
            by_raw == SortDescending(unique,
                                     [k \in 1..Len(unique) |-> unique[k].score])
        IN  /\ \A k \in 1..Len(rk_result) :
                   rk_result[k].reranked_score = Min(rk_result[k].score, 100)
            /\ [k \in 1..Len(rk_result) |-> Unranked(rk_result[k])]
                   = Take(by_raw, rk_limit)
            /\ (rk_limit = 1 /\ unique # <<>>) =>
                   /\ Len(rk_result) = 1
                   /\ \A k \in 1..Len(unique) :
                          rk_result[1].score >= unique[k].score

\* raw scores 0.76 and 0.80 from two collections, limit 1: only the 0.80 passage
C18_Witness ==
    /\ rk_pc = "done"
    /\ NoMatch
    /\ rk_limit = 1
    /\ Len(rk_lists) = 2
    /\ Len(rk_lists[1]) = 1 /\ Len(rk_lists[2]) = 1
    /\ rk_lists[1][1].score = 76 /\ rk_lists[2][1].score = 80
    /\ rk_lists[1][1].collection # rk_lists[2][1].collection
    /\ Len(rk_result) = 1
    /\ Unranked(rk_result[1]) = rk_lists[2][1]
    /\ rk_result[1].reranked_score = 80

\* the distinct words of the query, lower-cased, that occur in the lower-cased
\* text
WordsFound(text) ==
    {w \in Range(split(lower(rk_query))) : Substring(w, lower(text))}

\* C21: each candidate returned carries reranked_score =
\* min(1.0, score + 0.1 * T + 0.05 * min(5, C)), T the number of distinct query
\* words found in its title and C the number found in its content.
C21_RerankedScoreFormula ==
    rk_pc = "done" =>
        \A k \in 1..Len(rk_result) :
            LET T == Cardinality(WordsFound(rk_result[k].source_title[1]))
                C == Cardinality(WordsFound(rk_result[k].content[1]))
                boosted == rk_result[k].score + 10 * T
                               + 5 * (IF C < 5 THEN C ELSE 5)
            IN  rk_result[k].reranked_score
                    = (IF boosted < 100 THEN boosted ELSE 100)

\* one candidate boosted past 1.0 and capped, one boosted and below it
C21_Witness ==
    /\ rk_pc = "done"
    /\ Len(rk_result) = 2
    /\ rk_result[1].score = 80
    /\ Cardinality(WordsFound(rk_result[1].source_title[1])) = 2
    /\ Cardinality(WordsFound(rk_result[1].content[1])) = 2
    /\ rk_result[1].reranked_score = 100
    /\ rk_result[2].score = 76
    /\ Cardinality(WordsFound(rk_result[2].source_title[1])) = 1
    /\ Cardinality(WordsFound(rk_result[2].content[1])) = 0
    /\ rk_result[2].reranked_score = 86

-----------------------------------------------------------------------------
(* Properties of the variants expand_query keeps *)

Digits == {"0", "1", "2", "3", "4", "5", "6", "7", "8", "9"}

\* the line starts with a digit and a dot, with '-' or with '*'
StartsWithListMarker(line) ==
    \/ Len(line) >= 2 /\ line[1] \in Digits /\ line[2] = "."
    \/ Len(line) >= 1 /\ line[1] \in {"-", "*"}

\* C24: no variant expand_query returns after the original query starts with
\* a list marker.
C24_NoListMarkers ==
    exp_pc = "done" =>
        \A i \in 2..Len(exp_result) : ~StartsWithListMarker(exp_result[i])

-----------------------------------------------------------------------------
(* Properties of the conversation's short-term memory and of the frames *)

\* C29: in the short-term memory every user message is directly followed by
\* an assistant reply (the newest user message may await its reply while the
\* reply is being translated), and the list holds at most
\* SHORT_TERM_MEMORY_LIMIT messages, whatever the interleaving of
\* process_message and stream_response.
C29_MemoryPaired ==
    /\ Len(memory) <= SHORT_TERM_MEMORY_LIMIT
    /\ \A i \in 1..Len(memory) :
           memory[i].role = "user" =>
               IF i < Len(memory)
               THEN memory[i + 1].role = "assistant"
               ELSE sr.pc = "translate"

TokenTexts(frames) ==
    Flatten([i \in 1..Len(frames) |->
                 IF frames[i].type = "token" THEN frames[i].text ELSE <<>>])

=============================================================================
